---- MODULE Spec2Model ----
(***************************************************************************)
(* A model of pollua's Thread wrapper (src/src/thread/mod.rs) over the raw *)
(* binding layer (src/lua-sys/src/lcore.rs).                               *)
(*                                                                         *)
(* Spec      : one Thread::spawn session: construction, the user closure   *)
(*             working on the owned state, the fatal-error hook, teardown. *)
(* CallSpec  : a session whose closure uses the call protocol: loads,      *)
(*             global lookups, calls and version().                        *)
(* AllocSpec : the default allocator callback over the host heap.          *)
(*                                                                         *)
(* Native entry points of the VM are only declared in lcore.rs; their      *)
(* behaviour is taken from the VM's published protocol (5.3).              *)
(***************************************************************************)
EXTENDS Integers, Sequences, FiniteSets, TLC

\* ------------------------------------------------------------ bounds
MaxStack == 2      \* deepest stack the closure builds with raw pushes
MaxNest == 2       \* nested fatal-hook invocations before the C stack is exhausted
MaxRefs == 1       \* ThreadRef aliases alive at once
MaxBytes == 2      \* bytes the VM may hold beyond the state itself
MaxSize == 2       \* largest block size asked of the default allocator
MaxBlocks == 2     \* host heap blocks alive at once

\* --------------------------------------------------- program constants
LUA_OK == 0
LUA_YIELD == 1
LUA_ERRRUN == 2
LUA_ERRSYNTAX == 3
LUA_ERRMEM == 4
LUA_ERRGCMM == 5
LUA_ERRERR == 6

LUA_TNONE == -1
LUA_TNIL == 0
LUA_TNUMBER == 3
LUA_TSTRING == 4
LUA_TTABLE == 5
LUA_TFUNCTION == 6

\* A null block pointer (mod.rs 405) and the handles of VM states.
NULL == 0
NoState == "null"
MainState == "main"
\* A state of the VM other than the owned main state (a coroutine).
OtherState == "coroutine"

\* Status codes handed to get_error: every published code (0..6), the
\* file-related code 7, and unrecognized values on both sides.
Codes == -1 .. 8

\* ------------------------------------------------------------ values
\* A VM value is <<type tag, payload>>; the payload is a sequence of naturals
\* (the bytes of a string, the digits' source of a number, a table's kind).
Nil == <<LUA_TNIL, <<>>>>
Str(b) == <<LUA_TSTRING, b>>
Num(n) == <<LUA_TNUMBER, <<n>>>>
Func == <<LUA_TFUNCTION, <<>>>>
\* Table kinds: 0 no metatable; 1 a __tostring that raises a string error;
\* 2 a __tostring that raises the table itself.
Tbl(k) == <<LUA_TTABLE, <<k>>>>

Boom == <<98, 111, 111, 109>>                \* "boom"
Latin == <<195, 169, 255>>                   \* U+00E9 followed by a stray 0xFF
VersionMsg == <<118, 101, 114>>              \* "ver..." (version mismatch)
MemMsg == <<109, 101, 109>>                  \* "mem..." (not enough memory)

\* The values the closure stages with raw pushes.
Values == {Nil, Str(Latin), Num(42), Tbl(1), Tbl(2)}

TypeTag(v) == v[1]

\* String::from_utf8_lossy over the byte alphabet of the model (ASCII,
\* two-byte sequences, stray bytes): a malformed byte becomes U+FFFD.
RECURSIVE from_utf8_lossy(_)
from_utf8_lossy(b) ==
  IF b = <<>> THEN <<>>
  ELSE IF b[1] < 128 THEN <<b[1]>> \o from_utf8_lossy(Tail(b))
  ELSE IF /\ b[1] >= 194 /\ b[1] <= 223 /\ Len(b) >= 2
          /\ b[2] >= 128 /\ b[2] <= 191
       THEN <<(b[1] - 192) * 64 + (b[2] - 128)>> \o from_utf8_lossy(Tail(Tail(b)))
  ELSE <<65533>> \o from_utf8_lossy(Tail(b))

\* Decimal digits of a natural number, as bytes.
RECURSIVE Decimal(_)
Decimal(n) ==
  IF n < 10 THEN <<48 + n>> ELSE Decimal(n \div 10) \o <<48 + (n % 10)>>

\* luaL_tolstring: the text of any value, or the error its __tostring raises.
luaL_tolstring(v) ==
  CASE TypeTag(v) = LUA_TNIL -> [raises |-> FALSE, err |-> Nil, bytes |-> <<110, 105, 108>>]
    [] TypeTag(v) = LUA_TSTRING -> [raises |-> FALSE, err |-> Nil, bytes |-> v[2]]
    [] TypeTag(v) = LUA_TNUMBER -> [raises |-> FALSE, err |-> Nil, bytes |-> Decimal(v[2][1])]
    [] TypeTag(v) = LUA_TFUNCTION -> [raises |-> FALSE, err |-> Nil, bytes |-> <<102, 110, 58>>]
    [] TypeTag(v) = LUA_TTABLE /\ v[2][1] = 1 -> [raises |-> TRUE, err |-> Str(Boom), bytes |-> <<>>]
    [] TypeTag(v) = LUA_TTABLE /\ v[2][1] = 2 -> [raises |-> TRUE, err |-> v, bytes |-> <<>>]
    [] OTHER -> [raises |-> FALSE, err |-> Nil, bytes |-> <<116, 98, 58>>]

\* ------------------------------------------------------- stack macros
\* lua_settop: a non-negative index is the new depth (nil-filled when it
\* grows); a negative one counts from the top.
lua_settop(s, idx) ==
  LET n == IF idx >= 0 THEN idx ELSE Len(s) + idx + 1
  IN  IF n <= Len(s) THEN SubSeq(s, 1, n)
      ELSE s \o [i \in 1 .. (n - Len(s)) |-> Nil]

\* lcore.rs: lua_pop(L, n) is lua_settop(L, -n - 1).
lua_pop(s, n) == lua_settop(s, -n - 1)

\* lua_type at index -1; on an empty stack the index is not acceptable and
\* the read is outside the protocol: `slot` is what the build finds there.
lua_type_top(s, slot) == IF s = <<>> THEN slot ELSE TypeTag(s[Len(s)])

\* lcore.rs: lua_isnone(L, -1).
lua_isnone_top(s, slot) == lua_type_top(s, slot) = LUA_TNONE

\* What index -1 reads under an empty stack: nothing (LUA_TNONE), or the
\* frame's function slot, which holds nil at the base level.
EmptySlots == {LUA_TNONE, LUA_TNIL}

\* ---------------------------------------------------- error classifier
\* A classifier built against the 5.1 numbering, where the message-handler
\* status is 5 (lcore.rs 33) and no collector status exists.
KindOf_v51(code) ==
  CASE code = LUA_ERRRUN -> "Runtime"
    [] code = LUA_ERRSYNTAX -> "Syntax"
    [] code = LUA_ERRMEM -> "OutOfMemory"
    [] code = LUA_ERRGCMM -> "MessageHandler"
    [] OTHER -> "Io"

\* mod.rs 147-154: the kind of a non-OK status.
KindOf(code) ==
  CASE code = LUA_ERRRUN -> "Runtime"
    [] code = LUA_ERRSYNTAX -> "Syntax"
    [] code = LUA_ERRMEM -> "OutOfMemory"
    [] code = LUA_ERRERR -> "MessageHandler"
    [] code = LUA_ERRGCMM -> "GarbageCollection"
    [] OTHER -> "Io"

\* LuaResult<()> as a record; kind and msg are meaningful when ok is FALSE.
OkRes == [ok |-> TRUE, kind |-> "", hasMsg |-> FALSE, msg |-> <<>>]
ErrRes(k, has, m) == [ok |-> FALSE, kind |-> k, hasMsg |-> has, msg |-> m]

\* The count handed to lua_pop after luaL_tolstring (mod.rs 162).
PopCount == -1

\* A get_error that takes a raised status for success.
get_error_lenient(s, code, slot, chk) ==
  [ev |-> "ret", res |-> OkRes, stack |-> s, err |-> Nil, steps |-> <<>>]

\* mod.rs 142-176, Thread::get_error on stack s. `slot` is what index -1
\* reads when s is empty and `chk` whether the VM was built with API checks
\* (build.rs 43-45), which abort on an index outside the stack.
\*   ev = "ret"   : returned res, leaving stack
\*   ev = "raise" : luaL_tolstring raised err (get_error did not return)
\*   ev = "abort" : the API check stopped the process
\* `steps` lists the native calls and the copy of the bytes in the order the
\* code makes them: lua_isnone (157), luaL_tolstring (160), lua_pop (162),
\* then slice::from_raw_parts and from_utf8_lossy (167-168).
get_error(s, code, slot, chk) ==
  IF code = LUA_OK
  THEN [ev |-> "ret", res |-> OkRes, stack |-> s, err |-> Nil, steps |-> <<>>]
  ELSE IF s = <<>> /\ chk
  THEN [ev |-> "abort", res |-> OkRes, stack |-> s, err |-> Nil, steps |-> <<"isnone">>]
  ELSE IF lua_isnone_top(s, slot)
  THEN [ev |-> "ret", res |-> ErrRes(KindOf(code), FALSE, <<>>), stack |-> s, err |-> Nil,
        steps |-> <<"isnone">>]
  ELSE LET v == IF s = <<>> THEN Nil ELSE s[Len(s)]
           t == luaL_tolstring(v)
       IN  IF t.raises
           THEN [ev |-> "raise", res |-> OkRes, stack |-> s, err |-> t.err,
                 steps |-> <<"isnone", "tolstring">>]
           ELSE [ev |-> "ret",
                 res |-> ErrRes(KindOf(code), TRUE, from_utf8_lossy(t.bytes)),
                 stack |-> lua_pop(Append(s, Str(t.bytes)), PopCount),
                 err |-> Nil,
                 steps |-> <<"isnone", "tolstring", "pop", "copy">>]

\* lua_pcall(L, nargs, nresults, 0): the callable and its arguments leave the
\* stack; the results, or the error value, take their place.
lua_pcall(s, nargs, status, results, errobj) ==
  LET base == SubSeq(s, 1, Len(s) - nargs - 1)
  IN  IF status = LUA_OK THEN base \o results ELSE base \o <<errobj>>

\* lcore.rs 569-572: lua_pushcfunction pushes a C function.
lua_pushcfunction(s) == Append(s, Func)

\* What the version check leaves as error value, by status.
CheckErrorValue(st) == IF st = LUA_ERRMEM THEN Str(MemMsg) ELSE Str(VersionMsg)

\* A self-check that declares one argument to the protected call.
check_version_onearg(s, st) ==
  LET pushed == lua_pushcfunction(s)
  IN  [pre |-> Len(pushed), nargs |-> 1, count |-> 0,
       called |-> lua_pcall(pushed, 1, st, <<>>, CheckErrorValue(st))]

\* mod.rs 136-137, the protected call of check_version: the checking function
\* is pushed and called with 0 arguments and 0 results. `pre` is the depth
\* when the call is issued, `called` the stack it leaves.
check_version(s, st) ==
  LET pushed == lua_pushcfunction(s)
  IN  [pre |-> Len(pushed), nargs |-> 0, count |-> 0,
       called |-> lua_pcall(pushed, 0, st, <<>>, CheckErrorValue(st))]

\* ------------------------------------------------------ chunks and calls
\* lcore.rs 8: the result arity that keeps every result.
LUA_MULTRET == -1

\* Names of globals, as the bytes handed to the lookup.
NameX == <<120>>                                        \* "x"
NamePrint == <<112, 114, 105, 110, 116>>                \* "print"
Names == {NameX, NamePrint}

\* Chunks the closure loads, by their source text.
SrcAssign == <<120, 32, 61, 32, 52, 50>>                \* x = 42
SrcBoom == <<101, 114, 114, 111, 114, 40, 34, 98, 111, 111, 109, 34, 41>>  \* error("boom")
SrcBad == <<120, 32, 61, 32, 40>>                       \* x = (
SrcRaiseTbl == <<101, 114, 114, 111, 114, 40, 116, 41>> \* error(t), t's __tostring raises
SrcEcho == <<114, 101, 116, 117, 114, 110, 32, 46, 46, 46>>  \* return ...
Sources == {SrcAssign, SrcBoom, SrcBad, SrcRaiseTbl, SrcEcho}

SyntaxMsg == <<110, 101, 97, 114>>                      \* "...near <eof>"
ModeMsg == <<109, 111, 100, 101>>                       \* "...(mode is 'b')"

\* A function compiled from a chunk carries the chunk's text.
Fn(src) == <<LUA_TFUNCTION, src>>

\* mod.rs 285-289: the mode tag handed to the loader.
Modes == {"Binary", "Text", "Auto"}
ModeTag(mode) ==
  CASE mode = "Binary" -> "b"
    [] mode = "Text" -> "t"
    [] OTHER -> "bt"

\* luaL_loadbufferx on a text chunk: it pushes the compiled function, or an
\* error message when memory runs out, the mode excludes text, or the chunk
\* is malformed.
luaL_loadbufferx(s, src, tag, memOk) ==
  IF ~memOk THEN [status |-> LUA_ERRMEM, stack |-> Append(s, Str(MemMsg))]
  ELSE IF tag = "b" THEN [status |-> LUA_ERRSYNTAX, stack |-> Append(s, Str(ModeMsg))]
  ELSE IF src = SrcBad THEN [status |-> LUA_ERRSYNTAX, stack |-> Append(s, Str(SyntaxMsg))]
  ELSE [status |-> LUA_OK, stack |-> Append(s, Fn(src))]

\* What running a function does: its status, the values it returns or the
\* value it raises, and the globals afterwards.
RunFn(f, args, g) ==
  CASE f = Fn(SrcAssign) ->
         [status |-> LUA_OK, results |-> <<>>, err |-> Nil,
          globals |-> [g EXCEPT ![NameX] = Num(42)]]
    [] f = Fn(SrcBoom) ->
         [status |-> LUA_ERRRUN, results |-> <<>>, err |-> Str(Boom), globals |-> g]
    [] f = Fn(SrcRaiseTbl) ->
         [status |-> LUA_ERRRUN, results |-> <<>>, err |-> Tbl(1), globals |-> g]
    [] f = Fn(SrcEcho) ->
         [status |-> LUA_OK, results |-> args, err |-> Nil, globals |-> g]
    [] OTHER ->
         [status |-> LUA_OK, results |-> <<>>, err |-> Nil, globals |-> g]

\* The results of a call adjusted to the requested arity.
Adjust(results, nres) ==
  IF nres = LUA_MULTRET THEN results
  ELSE [i \in 1 .. nres |-> IF i <= Len(results) THEN results[i] ELSE Nil]

\* ------------------------------------------------------- global lookup
\* lua_rawgeti(L, LUA_REGISTRYINDEX, LUA_RIDX_GLOBALS): pushes the global table.
lua_rawgeti_globals(s) == Append(s, Tbl(0))

lua_pushlstring(s, b) == Append(s, Str(b))

\* What an __index metamethod of the global table answers for an absent key.
IndexAnswer == Str(Boom)

\* lua_rawget(L, -2): the key on top is replaced by the table's own entry;
\* no metamethod runs. `meta` tells whether a metamethod was invoked.
lua_rawget(s, g, hasIndex) ==
  LET v == g[s[Len(s)][2]]
  IN  [stack |-> [s EXCEPT ![Len(s)] = v], type |-> TypeTag(v), meta |-> FALSE]

\* lua_gettable(L, -2): as lua_rawget, but an absent key goes to __index.
lua_gettable(s, g, hasIndex) ==
  LET own == g[s[Len(s)][2]]
      viaMeta == own = Nil /\ hasIndex
      v == IF viaMeta THEN IndexAnswer ELSE own
  IN  [stack |-> [s EXCEPT ![Len(s)] = v], type |-> TypeTag(v), meta |-> viaMeta]

\* lua_copy(L, -1, idx) for a negative idx.
lua_copy_top(s, idx) == [s EXCEPT ![Len(s) + idx + 1] = s[Len(s)]]

\* lcore.rs 604-608: lua_replace is lua_copy(L, -1, idx) then lua_pop(L, 1).
lua_replace(s, idx) == lua_pop(lua_copy_top(s, idx), 1)

\* A lookup that goes through the metamethods, as lua_getglobal does.
push_global_impl_meta(s, g, hasIndex, name) ==
  LET t == lua_rawgeti_globals(s)
      k == lua_pushlstring(t, name)
      r == lua_gettable(k, g, hasIndex)
  IN  [stack |-> lua_replace(r.stack, -2), type |-> r.type, meta |-> r.meta]

\* mod.rs 298-311, Thread::push_global_impl: the global table, the name, the
\* raw lookup at -2, then lua_replace(-2) puts the value where the table was.
push_global_impl(s, g, hasIndex, name) ==
  LET t == lua_rawgeti_globals(s)
      k == lua_pushlstring(t, name)
      r == lua_rawget(k, g, hasIndex)
  IN  [stack |-> lua_replace(r.stack, -2), type |-> r.type, meta |-> r.meta]

\* --------------------------------------------------------- ownership
\* A destructor that forgets to close the state.
DropThread_leak(closes) == closes

\* mod.rs 314-320, Drop for Thread: lua_close on the owned state.
DropThread(closes) == closes + 1

\* An alias whose drop runs the owner's destructor.
DropThreadRef_closes(closes) == closes + 1

\* mod.rs 335-339: a ThreadRef holds its Thread in ManuallyDrop, so dropping
\* the alias runs no destructor.
DropThreadRef(closes) == closes

\* lua_close releases every byte the state holds: the bytes left once the
\* close count went from `before` to `after`.
BytesAfter(bytes, before, after) == IF after > before THEN 0 ELSE bytes

\* A construction that installs no hook.
HookToInstall_none == "none"

\* mod.rs 119: the hook handed to lua_atpanic.
HookToInstall == "at_panic"

\* mod.rs 117: the error of a null lua_newstate.
NullStateError == ErrRes("OutOfMemory", FALSE, <<>>)

\* mod.rs 199-202, as_raw, and 214-216, from_raw: a Thread is its raw field.
as_raw(t) == t
from_raw(p) == p

\* mod.rs 347-352 and 358-360: a ThreadRef wraps Thread::from_raw(raw), and
\* from_ref takes the raw field of the Thread it is given.
ThreadRef_from_raw(p) == from_raw(p)
ThreadRef_from_ref(t) == ThreadRef_from_raw(as_raw(t))

\* mod.rs 225-227, Thread::ref_from_raw: the state's own memory is read as a
\* Thread, so the alias's raw field is the first word stored in the state,
\* not the state's address p.
ref_from_raw(p, firstWord) == firstWord

\* What the first word of state h may hold: the link to the next collectable
\* object. The main state is on no collector list, so its link is null; a
\* coroutine's link is null or the object created before it, which may be
\* another coroutine.
FirstWords(h) == IF h = MainState THEN {NoState} ELSE {NoState, OtherState}

\* Stacks another state of the VM may hold when the hook looks at it.
AliasStacks == {<<>>} \cup {<<v>> : v \in Values}

\* ================================================================ state
VARIABLES
  pc,            \* where the spawn session stands
  raw,           \* Thread.raw: the owned state, NoState before creation
  panicf,        \* the VM's fatal-error hook
  stack,         \* the owned state's value stack
  closeCount,    \* lua_close calls on the owned state
  refs,          \* ThreadRef aliases alive
  hookDepth,     \* at_panic invocations active
  thrower,       \* the state the VM handed to the running hook
  crossed,       \* a host unwind left a callback into VM frames
  hookReturned,  \* at_panic returned normally to the VM
  hookInvoked,   \* the fatal hook ran in this session
  result,        \* what spawn hands back
  last,          \* the last operation of the closure and its outcome
  trace,         \* construction events, in order
  outstanding,   \* bytes the VM holds from its allocator
  allocator,     \* the allocator the session was spawned with
  checkStatus,   \* status of the protected version self-check
  gversion,      \* the version number the VM's global state points to
  globals,       \* the global table's own entries, by name
  gindex,        \* the global table has an __index metamethod
  caller,        \* the live Caller: the callable's slot and the pending arguments
  firstVersion,  \* what the first call of version() returned, 0 before it
  ranAssign,     \* `x = 42`, loaded in Text mode, was invoked with 0 arguments
                 \* and 0 results and returned Ok
  hookSeen,      \* the state the hook was invoked for and the one its alias designated
  heap,          \* AllocSpec: size of each host block, 0 when free
  acall,         \* AllocSpec: the last alloc_default call
  apc            \* AllocSpec: "idle", "returned" or "fault"

threadVars == <<pc, raw, panicf, stack, closeCount, refs, hookDepth, thrower, crossed,
                hookReturned, hookInvoked, result, last, trace, outstanding,
                allocator, checkStatus, gversion, globals, gindex, caller,
                firstVersion, ranAssign, hookSeen>>
\* The variables of the call protocol and of the observations.
callVars == <<gversion, globals, gindex, caller, firstVersion, ranAssign, hookSeen>>
allocVars == <<heap, acall, apc>>
vars == <<threadVars, allocVars, callVars>>

NoResult == [tag |-> "none", kind |-> "", hasMsg |-> FALSE, msg |-> <<>>]
OkResult == [tag |-> "ok", kind |-> "", hasMsg |-> FALSE, msg |-> <<>>]
\* ThreadError::Lua(e), through From<Error> (mod.rs 47-51).
LuaResult(e) == [tag |-> "lua", kind |-> e.kind, hasMsg |-> e.hasMsg, msg |-> e.msg]
\* The panic leaves spawn as a host unwind: no value is returned.
UnwindResult == [tag |-> "unwind", kind |-> "", hasMsg |-> FALSE, msg |-> <<>>]

\* The operation made no protected call.
NoRec == [made |-> FALSE, status |-> LUA_OK, base |-> 0, pre |-> 0, nargs |-> 0,
          count |-> 0, post |-> 0]

\* The record of one operation of the closure: its name, the status code it
\* was given or the integer it returned, its LuaResult, the native steps a
\* classification took, the bytes and mode it was called with, whether a
\* metamethod ran, the protected call it made, and for a call how its
\* Caller was obtained.
Done(op, code, res) ==
  [op |-> op, code |-> code, res |-> res, steps |-> <<>>, arg |-> <<>>, mode |-> "",
   meta |-> FALSE, call |-> NoRec, via |-> ""]

NoOp == Done("none", LUA_OK, OkRes)

\* No Caller is alive.
NoCaller == [live |-> FALSE, base |-> 0, nargs |-> 0, via |-> "", mode |-> ""]

\* The hook has not run.
NoHook == [ran |-> FALSE, thrower |-> NoState, alias |-> NoState]

\* The version number a 5.3 VM reports (build.rs 116 asks for 5.3).
VersionNums == {503}

NoCall == [ptr |-> NULL, osize |-> 0, nsize |-> 0, ret |-> NULL, prim |-> "none",
           arg |-> NULL, failed |-> FALSE]

ThreadInit ==
  /\ pc = "start"
  /\ raw = NoState
  /\ panicf = "none"
  /\ stack = <<>>
  /\ closeCount = 0
  /\ refs = 0
  /\ hookDepth = 0
  /\ thrower = NoState
  /\ crossed = FALSE
  /\ hookReturned = FALSE
  /\ hookInvoked = FALSE
  /\ result = NoResult
  /\ last = NoOp
  /\ trace = <<>>
  /\ outstanding = 0
  /\ checkStatus = LUA_OK
  /\ gversion = 0
  /\ globals = [n \in Names |-> Nil]
  /\ gindex = FALSE
  /\ caller = NoCaller
  /\ firstVersion = 0
  /\ ranAssign = FALSE
  /\ hookSeen = NoHook

AllocInit ==
  /\ heap = [b \in 1 .. MaxBlocks |-> 0]
  /\ acall = NoCall
  /\ apc = "idle"

\* A construction that goes on with a null state.
NewState_unchecked ==
  /\ pc = "start"
  /\ trace' = Append(trace, "newstate")
  /\ \E created \in BOOLEAN, v \in VersionNums :
       IF created
       THEN /\ raw' = MainState
            /\ gversion' = v
            /\ outstanding' = 1
            /\ pc' = "created"
            /\ result' = result
       ELSE /\ raw' = NoState
            /\ gversion' = gversion
            /\ outstanding' = 0
            /\ pc' = "created"
            /\ result' = result
  /\ UNCHANGED <<panicf, stack, closeCount, refs, hookDepth, thrower, crossed, hookReturned,
                 hookInvoked, last, allocator, checkStatus, allocVars, globals,
                 gindex, caller, firstVersion, ranAssign, hookSeen>>

\* ------------------------------------------------------- construction
\* mod.rs 111-118: lua_newstate with the given or the default allocator; a
\* null state is OutOfMemory, which spawn_with_allocator (95-97) turns into
\* ThreadError::Lua without running the closure.
NewState ==
  /\ pc = "start"
  /\ trace' = Append(trace, "newstate")
  /\ \E created \in BOOLEAN, v \in VersionNums :
       IF created
       THEN /\ raw' = MainState
            /\ gversion' = v
            /\ outstanding' = 1
            /\ pc' = "created"
            /\ result' = result
       ELSE /\ raw' = NoState
            /\ gversion' = gversion
            /\ outstanding' = 0
            /\ pc' = "done"
            /\ result' = LuaResult(NullStateError)
  /\ UNCHANGED <<panicf, stack, closeCount, refs, hookDepth, thrower, crossed, hookReturned,
                 hookInvoked, last, allocator, checkStatus, allocVars, globals,
                 gindex, caller, firstVersion, ranAssign, hookSeen>>

\* mod.rs 119: lua_atpanic(thread.raw, Some(at_panic)).
InstallHook ==
  /\ pc = "created"
  /\ panicf' = HookToInstall
  /\ trace' = Append(trace, "atpanic")
  /\ pc' = "hooked"
  /\ UNCHANGED <<raw, stack, closeCount, refs, hookDepth, thrower, crossed, hookReturned,
                 hookInvoked, result, last, outstanding, allocator, checkStatus,
                 allocVars, callVars>>

\* Statuses the protected self-check can end with: the check passed, it
\* raised (version mismatch), or memory ran out while it ran.
CheckStatuses == {LUA_OK, LUA_ERRRUN, LUA_ERRMEM}

\* mod.rs 120 and 129-138: check_version pushes the checking function, calls
\* it protected with 0 arguments and 0 results, and classifies the status. On
\* an error `?` returns it from Thread::new, dropping the Thread (121 is not
\* reached), and spawn_with_allocator maps it without running the closure.
CheckVersion ==
  /\ pc = "hooked"
  /\ trace' = Append(trace, "pcall")
  /\ \E st \in CheckStatuses :
       LET cv == check_version(stack, st)
           r == get_error(cv.called, st, LUA_TNONE, FALSE)
       IN  /\ checkStatus' = st
           /\ last' = [Done("check_version", st, r.res) EXCEPT
                         !.steps = r.steps,
                         !.call = [made |-> TRUE, status |-> st, base |-> Len(stack),
                                   pre |-> cv.pre, nargs |-> cv.nargs,
                                   count |-> cv.count, post |-> Len(cv.called)]]
           /\ IF r.res.ok
              THEN /\ stack' = r.stack
                   /\ pc' = "ready"
                   /\ UNCHANGED <<closeCount, outstanding, result>>
              ELSE /\ stack' = <<>>
                   /\ closeCount' = DropThread(closeCount)
                   /\ outstanding' = BytesAfter(outstanding, closeCount, DropThread(closeCount))
                   /\ result' = LuaResult(r.res)
                   /\ pc' = "done"
  /\ UNCHANGED <<raw, panicf, refs, hookDepth, thrower, crossed, hookReturned, hookInvoked,
                 allocator, allocVars, gversion, globals, gindex, caller,
                 firstVersion, ranAssign, hookSeen>>

\* mod.rs 96: Ok(t) reaches `.map(|mut t| f(&mut t))`: the closure starts.
EnterClosure ==
  /\ pc = "ready"
  /\ trace' = Append(trace, "closure")
  /\ pc' = "closure"
  /\ UNCHANGED <<raw, panicf, stack, closeCount, refs, hookDepth, thrower, crossed,
                 hookReturned, hookInvoked, result, last, outstanding, allocator,
                 checkStatus, allocVars, callVars>>

\* ------------------------------------------------- the closure's work
Grow(bytes, d) == IF bytes + d <= 1 + MaxBytes THEN bytes + d ELSE bytes

\* A raw push through as_raw (mod.rs 199-202), as the crate's test does.
RawPush ==
  /\ pc = "closure"
  /\ Len(stack) < MaxStack
  /\ \E v \in Values, d \in 0 .. 1 :
       /\ stack' = Append(stack, v)
       /\ outstanding' = Grow(outstanding, d)
  /\ last' = Done("push", LUA_OK, OkRes)
  /\ UNCHANGED <<pc, raw, panicf, closeCount, refs, hookDepth, thrower, crossed, hookReturned,
                 hookInvoked, result, trace, allocator, checkStatus, allocVars, callVars>>

\* A raw lua_pop(L, 1) through as_raw.
RawPop ==
  /\ pc = "closure"
  /\ Len(stack) >= 1
  /\ stack' = lua_pop(stack, 1)
  /\ last' = Done("pop", LUA_OK, OkRes)
  /\ UNCHANGED <<pc, raw, panicf, closeCount, refs, hookDepth, thrower, crossed, hookReturned,
                 hookInvoked, result, trace, outstanding, allocator, checkStatus,
                 allocVars, callVars>>

\* A collection run by the VM: garbage goes back to the allocator.
RawGc ==
  /\ pc = "closure"
  /\ outstanding > 1
  /\ \E b \in 1 .. (outstanding - 1) : outstanding' = b
  /\ last' = Done("gc", LUA_OK, OkRes)
  /\ UNCHANGED <<pc, raw, panicf, stack, closeCount, refs, hookDepth, thrower, crossed,
                 hookReturned, hookInvoked, result, trace, allocator, checkStatus,
                 allocVars, callVars>>

\* Thread::get_error called by the closure, outside any protected call: an
\* error raised by the stringify step has no handler, so the VM puts the
\* error value on the stack and invokes the fatal hook (or aborts when none
\* is installed).
GetError ==
  /\ pc = "closure"
  /\ \E code \in Codes, slot \in EmptySlots, chk \in BOOLEAN, d \in 0 .. 1 :
       LET r == get_error(stack, code, slot, chk)
       IN  CASE r.ev = "ret" ->
                  /\ stack' = r.stack
                  /\ last' = [Done("get_error", code, r.res) EXCEPT !.steps = r.steps]
                  /\ outstanding' = IF r.res.hasMsg THEN Grow(outstanding, d)
                                    ELSE outstanding
                  /\ UNCHANGED <<pc, hookDepth, thrower, hookInvoked>>
             [] r.ev = "raise" /\ panicf = "at_panic" ->
                  /\ stack' = Append(stack, r.err)
                  /\ last' = Done("get_error_raised", code, OkRes)
                  /\ pc' = "hook"
                  /\ hookDepth' = 1
                  /\ thrower' = raw
                  /\ hookInvoked' = TRUE
                  /\ UNCHANGED outstanding
             [] OTHER ->
                  /\ pc' = "aborted"
                  /\ last' = Done("get_error_aborted", code, OkRes)
                  /\ UNCHANGED <<stack, hookDepth, thrower, hookInvoked, outstanding>>
  /\ UNCHANGED <<raw, panicf, closeCount, refs, crossed, hookReturned, result, trace,
                 allocator, checkStatus, allocVars, callVars>>

\* mod.rs 354-360, ThreadRef::from_ref: one more alias of the owned state.
MakeRef ==
  /\ pc = "closure"
  /\ refs < MaxRefs
  /\ refs' = refs + 1
  /\ last' = Done("ref", LUA_OK, OkRes)
  /\ UNCHANGED <<pc, raw, panicf, stack, closeCount, hookDepth, thrower, crossed, hookReturned,
                 hookInvoked, result, trace, outstanding, allocator, checkStatus,
                 allocVars, callVars>>

\* An alias goes out of scope.
DropRef ==
  /\ pc = "closure"
  /\ refs > 0
  /\ refs' = refs - 1
  /\ closeCount' = DropThreadRef(closeCount)
  /\ outstanding' = BytesAfter(outstanding, closeCount, DropThreadRef(closeCount))
  /\ last' = Done("unref", LUA_OK, OkRes)
  /\ UNCHANGED <<pc, raw, panicf, stack, hookDepth, thrower, crossed, hookReturned,
                 hookInvoked, result, trace, allocator, checkStatus, allocVars, callVars>>

\* Through as_raw the closure raises an error on a coroutine of the VM
\* outside any protected call: the VM invokes the fatal hook for that state.
RawThreadError ==
  /\ pc = "closure"
  /\ panicf = "at_panic"
  /\ pc' = "hook"
  /\ hookDepth' = 1
  /\ thrower' = OtherState
  /\ hookInvoked' = TRUE
  /\ last' = Done("raw_error", LUA_OK, OkRes)
  /\ UNCHANGED <<raw, panicf, stack, closeCount, refs, crossed, hookReturned, result,
                 trace, outstanding, allocator, checkStatus, allocVars, callVars>>

\* The closure panics in host code of its own.
ClosurePanic ==
  /\ pc = "closure"
  /\ pc' = "unwinding"
  /\ UNCHANGED <<raw, panicf, stack, closeCount, refs, hookDepth, thrower, crossed,
                 hookReturned, hookInvoked, result, last, trace, outstanding,
                 allocator, checkStatus, allocVars, callVars>>

\* The closure returns; its aliases cannot outlive the borrow it was given.
ClosureReturn ==
  /\ pc = "closure"
  /\ refs = 0
  /\ pc' = "returned"
  /\ UNCHANGED <<raw, panicf, stack, closeCount, refs, hookDepth, thrower, crossed,
                 hookReturned, hookInvoked, result, last, trace, outstanding,
                 allocator, checkStatus, allocVars, callVars>>

\* mod.rs 96: `t` goes out of scope at the end of the map closure: Drop for
\* Thread runs, and spawn returns Ok.
Teardown ==
  /\ pc = "returned"
  /\ closeCount' = DropThread(closeCount)
  /\ outstanding' = BytesAfter(outstanding, closeCount, DropThread(closeCount))
  /\ stack' = <<>>
  /\ result' = OkResult
  /\ pc' = "done"
  /\ UNCHANGED <<raw, panicf, refs, hookDepth, thrower, crossed, hookReturned, hookInvoked,
                 last, trace, allocator, checkStatus, allocVars, callVars>>

\* A host unwind leaves the closure's frame: live aliases are dropped, then
\* `t`, and the panic goes on out of spawn (nothing in 70-98 catches it).
Unwind ==
  /\ pc = "unwinding"
  /\ LET afterRefs == IF refs > 0 THEN DropThreadRef(closeCount) ELSE closeCount
         afterAll == DropThread(afterRefs)
     IN  /\ closeCount' = afterAll
         /\ outstanding' = BytesAfter(outstanding, closeCount, afterAll)
  /\ refs' = 0
  /\ hookDepth' = 0
  /\ thrower' = NoState
  /\ stack' = <<>>
  /\ result' = UnwindResult
  /\ pc' = "done"
  /\ UNCHANGED <<raw, panicf, crossed, hookReturned, hookInvoked, last, trace,
                 allocator, checkStatus, allocVars, callVars>>

\* ------------------------------------------------------ fatal-error hook
\* A hook that classifies with the OK status and so takes its first arm.
at_panic_returns(s, slot, chk) ==
  LET r == get_error(s, LUA_OK, slot, chk)
  IN  IF r.ev = "ret" /\ r.res.ok THEN "return" ELSE "panic"

\* mod.rs 387-393, the body of at_panic on the stack s its alias designates:
\*   "return" : Ok(()) => 0
\*   "panic"  : either Err arm, panic!
\*   "raise"  : the classification raised a VM error
\*   "abort"  : the process was stopped inside the classification
at_panic(s, slot, chk) ==
  LET r == get_error(s, LUA_ERRRUN, slot, chk)
  IN  CASE r.ev = "ret" /\ r.res.ok -> "return"
        [] r.ev = "ret" -> "panic"
        [] r.ev = "raise" -> "raise"
        [] OTHER -> "abort"

\* The VM runs the hook. Its alias comes from ref_from_raw; a null alias
\* faults at the first native call. A panic! in the hook either unwinds out
\* of the extern "C" frame into the VM's frames or stops the process,
\* depending on the toolchain. An error raised by the classification is again
\* unprotected, so the VM invokes the hook once more. A hook that returns
\* hands control back to the VM, which aborts.
AtPanic ==
  /\ pc = "hook"
  /\ \E w \in FirstWords(thrower), other \in AliasStacks, slot \in EmptySlots,
        chk \in BOOLEAN, escapes \in BOOLEAN :
       LET alias == ref_from_raw(thrower, w)
           seen == IF alias = raw THEN stack ELSE other
           out == IF alias = NoState THEN "abort" ELSE at_panic(seen, slot, chk)
       IN  /\ hookSeen' = [ran |-> TRUE, thrower |-> thrower, alias |-> alias]
           /\ CASE out = "return" ->
                     /\ hookReturned' = TRUE
                     /\ pc' = "aborted"
                     /\ UNCHANGED <<hookDepth, thrower, crossed>>
                [] out = "panic" /\ escapes ->
                     /\ crossed' = TRUE
                     /\ pc' = "unwinding"
                     /\ UNCHANGED <<hookDepth, thrower, hookReturned>>
                [] out = "raise" /\ hookDepth < MaxNest ->
                     /\ hookDepth' = hookDepth + 1
                     /\ thrower' = alias
                     /\ UNCHANGED <<pc, crossed, hookReturned>>
                [] OTHER ->
                     /\ pc' = "aborted"
                     /\ UNCHANGED <<hookDepth, thrower, crossed, hookReturned>>
  /\ UNCHANGED <<raw, panicf, stack, closeCount, refs, hookInvoked, result, last,
                 trace, outstanding, allocator, checkStatus, allocVars, gversion,
                 globals, gindex, caller, firstVersion, ranAssign>>

\* ========================================================= call protocol
\* Caller::from_stack_unchecked: a Caller for the callable on the stack top.
from_stack_unchecked(s) ==
  [live |-> TRUE, base |-> Len(s), nargs |-> 0, via |-> "load", mode |-> ""]

\* A load that hands out a Caller whatever the loader answered.
caller_load_impl_unchecked(s, src, mode, memOk) ==
  LET ld == luaL_loadbufferx(s, src, ModeTag(mode), memOk)
      r == get_error(ld.stack, ld.status, LUA_TNONE, FALSE)
  IN  [code |-> ld.status, r |-> r, caller |-> from_stack_unchecked(r.stack)]

\* mod.rs 272-296, Thread::caller_load_impl: the loader's status is
\* classified; Ok gives a Caller for the stack top, Err(e) gives e.
caller_load_impl(s, src, mode, memOk) ==
  LET ld == luaL_loadbufferx(s, src, ModeTag(mode), memOk)
      r == get_error(ld.stack, ld.status, LUA_TNONE, FALSE)
  IN  [code |-> ld.status, r |-> r,
       caller |-> IF r.ev = "ret" /\ r.res.ok THEN from_stack_unchecked(r.stack)
                  ELSE NoCaller]

\* A lookup that hands out a Caller for any bound value.
from_global_any(s, g, hasIndex, name) ==
  LET p == push_global_impl(s, g, hasIndex, name)
  IN  IF p.type # LUA_TNIL
      THEN [stack |-> p.stack, type |-> p.type, meta |-> p.meta,
            caller |-> [from_stack_unchecked(p.stack) EXCEPT !.via = "global"]]
      ELSE [stack |-> lua_pop(p.stack, 1), type |-> p.type, meta |-> p.meta,
            caller |-> NoCaller]

\* Caller::from_global, which mod.rs 248-250 calls: the global is pushed by
\* push_global; a function gives a Caller, anything else is popped and gives
\* None.
from_global(s, g, hasIndex, name) ==
  LET p == push_global_impl(s, g, hasIndex, name)
  IN  IF p.type = LUA_TFUNCTION
      THEN [stack |-> p.stack, type |-> p.type, meta |-> p.meta,
            caller |-> [from_stack_unchecked(p.stack) EXCEPT !.via = "global"]]
      ELSE [stack |-> lua_pop(p.stack, 1), type |-> p.type, meta |-> p.meta,
            caller |-> NoCaller]

\* The Caller's call: a protected call with the pending arguments and the
\* requested arity, its status classified by get_error.
caller_call(s, nargs, nres, run) ==
  LET results == Adjust(run.results, nres)
      called == lua_pcall(s, nargs, run.status, results, run.err)
  IN  [pre |-> Len(s), count |-> Len(results), called |-> called,
       r |-> get_error(called, run.status, LUA_TNONE, FALSE)]

\* A version() that reads its number through the stack.
version_by_depth(s, gv) == [ret |-> gv + Len(s), stack |-> s]

\* mod.rs 191-193, Thread::version: the number lua_version points to; the VM
\* state is only read.
version(s, gv) == [ret |-> gv, stack |-> s]

\* mod.rs 234-241, caller_load. The loader always pushes one value, so the
\* classification finds the error message on top.
CallerLoad ==
  /\ pc = "closure"
  /\ ~caller.live
  /\ Len(stack) < MaxStack
  /\ \E src \in Sources, mode \in Modes, memOk \in BOOLEAN :
       LET c == caller_load_impl(stack, src, mode, memOk)
       IN  /\ stack' = c.r.stack
           /\ caller' = IF c.caller.live THEN [c.caller EXCEPT !.mode = mode]
                         ELSE c.caller
           /\ last' = [Done("caller_load", c.code, c.r.res) EXCEPT
                         !.steps = c.r.steps, !.arg = src, !.mode = mode]
  /\ UNCHANGED <<pc, raw, panicf, closeCount, refs, hookDepth, thrower, crossed,
                 hookReturned, hookInvoked, result, trace, outstanding, allocator,
                 checkStatus, allocVars, gversion, globals, gindex, firstVersion, ranAssign, hookSeen>>

\* mod.rs 248-250, caller_global.
CallerGlobal ==
  /\ pc = "closure"
  /\ ~caller.live
  /\ Len(stack) < MaxStack
  /\ \E name \in Names :
       LET fg == from_global(stack, globals, gindex, name)
       IN  /\ stack' = fg.stack
           /\ caller' = fg.caller
           /\ last' = [Done("caller_global", fg.type, OkRes) EXCEPT
                         !.arg = name, !.meta = fg.meta]
  /\ UNCHANGED <<pc, raw, panicf, closeCount, refs, hookDepth, thrower, crossed,
                 hookReturned, hookInvoked, result, trace, outstanding, allocator,
                 checkStatus, allocVars, gversion, globals, gindex, firstVersion, ranAssign, hookSeen>>

\* mod.rs 265-267, push_global, as the crate's test calls it.
PushGlobal ==
  /\ pc = "closure"
  /\ ~caller.live
  /\ Len(stack) < MaxStack
  /\ \E name \in Names :
       LET p == push_global_impl(stack, globals, gindex, name)
       IN  /\ stack' = p.stack
           /\ last' = [Done("push_global", p.type, OkRes) EXCEPT
                         !.arg = name, !.meta = p.meta]
  /\ UNCHANGED <<pc, raw, panicf, closeCount, refs, hookDepth, thrower, crossed,
                 hookReturned, hookInvoked, result, trace, outstanding, allocator,
                 checkStatus, allocVars, gversion, globals, gindex, caller, firstVersion, ranAssign, hookSeen>>

\* The Caller stages one more argument above the callable.
PushArg ==
  /\ pc = "closure"
  /\ caller.live
  /\ Len(stack) < MaxStack
  /\ stack' = Append(stack, Num(42))
  /\ caller' = [caller EXCEPT !.nargs = @ + 1]
  /\ last' = Done("arg", LUA_OK, OkRes)
  /\ UNCHANGED <<pc, raw, panicf, closeCount, refs, hookDepth, thrower, crossed,
                 hookReturned, hookInvoked, result, trace, outstanding, allocator,
                 checkStatus, allocVars, gversion, globals, gindex, firstVersion, ranAssign, hookSeen>>

\* The Caller is invoked and consumed. An error raised while the status is
\* classified is outside the protected call: the VM invokes the fatal hook.
Invoke ==
  /\ pc = "closure"
  /\ caller.live
  /\ \E nres \in {LUA_MULTRET, 0, 1} :
       LET run == RunFn(stack[caller.base],
                        SubSeq(stack, caller.base + 1, Len(stack)), globals)
           c == caller_call(stack, caller.nargs, nres, run)
           rec == [made |-> TRUE, status |-> run.status, base |-> caller.base - 1,
                   pre |-> c.pre, nargs |-> caller.nargs, count |-> c.count,
                   post |-> Len(c.called)]
       IN  /\ globals' = run.globals
           /\ ranAssign' = (\/ ranAssign
                            \/ /\ stack[caller.base] = Fn(SrcAssign)
                               /\ caller.mode = "Text"
                               /\ caller.nargs = 0 /\ nres = 0
                               /\ c.r.ev = "ret" /\ c.r.res.ok)
           /\ CASE c.r.ev = "ret" ->
                     /\ stack' = c.r.stack
                     /\ last' = [Done("call", run.status, c.r.res) EXCEPT
                                   !.steps = c.r.steps, !.call = rec,
                                   !.via = caller.via]
                     /\ UNCHANGED <<pc, hookDepth, thrower, hookInvoked>>
                [] OTHER ->
                     /\ stack' = Append(c.r.stack, c.r.err)
                     /\ last' = [Done("call_raised", run.status, OkRes) EXCEPT
                                   !.call = rec, !.via = caller.via]
                     /\ pc' = "hook"
                     /\ hookDepth' = 1
                     /\ thrower' = raw
                     /\ hookInvoked' = TRUE
  /\ caller' = NoCaller
  /\ UNCHANGED <<raw, panicf, closeCount, refs, crossed, hookReturned, result, trace,
                 outstanding, allocator, checkStatus, allocVars, gversion, gindex,
                 firstVersion, hookSeen>>

\* A Caller is dropped without being invoked; the callable stays where it is.
DropCaller ==
  /\ pc = "closure"
  /\ caller.live
  /\ caller.nargs = 0
  /\ caller' = NoCaller
  /\ last' = Done("drop_caller", LUA_OK, OkRes)
  /\ UNCHANGED <<pc, raw, panicf, stack, closeCount, refs, hookDepth, thrower, crossed,
                 hookReturned, hookInvoked, result, trace, outstanding, allocator,
                 checkStatus, allocVars, gversion, globals, gindex, firstVersion, ranAssign, hookSeen>>

\* lua_setglobal through as_raw, as the crate's test does: the top value is
\* popped and bound to the name.
RawSetGlobal ==
  /\ pc = "closure"
  /\ ~caller.live
  /\ Len(stack) >= 1
  /\ globals' = [globals EXCEPT ![NamePrint] = stack[Len(stack)]]
  /\ stack' = lua_pop(stack, 1)
  /\ last' = Done("setglobal", LUA_OK, OkRes)
  /\ UNCHANGED <<pc, raw, panicf, closeCount, refs, hookDepth, thrower, crossed,
                 hookReturned, hookInvoked, result, trace, outstanding, allocator,
                 checkStatus, allocVars, gversion, gindex, caller, firstVersion, ranAssign, hookSeen>>

\* Through as_raw the global table is given a metatable with __index.
RawSetIndex ==
  /\ pc = "closure"
  /\ ~caller.live
  /\ ~gindex
  /\ gindex' = TRUE
  /\ last' = Done("setmetatable", LUA_OK, OkRes)
  /\ UNCHANGED <<pc, raw, panicf, stack, closeCount, refs, hookDepth, thrower, crossed,
                 hookReturned, hookInvoked, result, trace, outstanding, allocator,
                 checkStatus, allocVars, gversion, globals, caller, firstVersion, ranAssign, hookSeen>>

\* mod.rs 191-193, version().
Version ==
  /\ pc = "closure"
  /\ ~caller.live
  /\ LET v == version(stack, gversion)
     IN  /\ stack' = v.stack
         /\ last' = Done("version", v.ret, OkRes)
         /\ firstVersion' = IF firstVersion = 0 THEN v.ret ELSE firstVersion
  /\ UNCHANGED <<pc, raw, panicf, closeCount, refs, hookDepth, thrower, crossed,
                 hookReturned, hookInvoked, result, trace, outstanding, allocator,
                 checkStatus, allocVars, gversion, globals, gindex, caller,
                 ranAssign, hookSeen>>

\* ===================================================== default allocator
\* mod.rs 403-414: which host primitive alloc_default calls.
AllocBranch(ptr, nsize) ==
  IF nsize = 0 THEN "dealloc"
  ELSE IF ptr = NULL THEN "alloc"
  ELSE "realloc"

LiveBlocks == {b \in 1 .. MaxBlocks : heap[b] > 0}
FreeSlots == {b \in 1 .. MaxBlocks : heap[b] = 0}

\* mod.rs 397-415, alloc_default(_ud, ptr, osize, nsize) over the host heap.
\* The VM passes a live block with its exact size, or null with any osize.
\* alloc::alloc and alloc::realloc report failure by a null result and leave
\* the heap as it was; a resized block may move. alloc::dealloc requires a
\* block the allocator handed out: on a null pointer its behaviour is
\* undefined, and the call either does nothing or faults, by the allocator
\* the program is linked with.
AllocDefault ==
  /\ apc # "fault"
  /\ \E ptr \in LiveBlocks \cup {NULL}, any \in 0 .. MaxSize, nsize \in 0 .. MaxSize,
        hostOk \in BOOLEAN, to \in 1 .. MaxBlocks, nullFree \in {"noop", "fault"} :
       LET osize == IF ptr = NULL THEN any ELSE heap[ptr]
           branch == AllocBranch(ptr, nsize)
       IN  CASE branch = "dealloc" /\ ptr # NULL ->
                  /\ heap' = [heap EXCEPT ![ptr] = 0]
                  /\ acall' = [ptr |-> ptr, osize |-> osize, nsize |-> nsize,
                               ret |-> NULL, prim |-> "dealloc", arg |-> ptr,
                               failed |-> FALSE]
                  /\ apc' = "returned"
             [] branch = "dealloc" /\ ptr = NULL ->
                  /\ heap' = heap
                  /\ acall' = [ptr |-> ptr, osize |-> osize, nsize |-> nsize,
                               ret |-> NULL, prim |-> "dealloc", arg |-> ptr,
                               failed |-> FALSE]
                  /\ apc' = IF nullFree = "fault" THEN "fault" ELSE "returned"
             [] branch = "alloc" ->
                  LET ok == hostOk /\ to \in FreeSlots /\ nsize > 0
                  IN  /\ heap' = IF ok THEN [heap EXCEPT ![to] = nsize] ELSE heap
                      /\ acall' = [ptr |-> ptr, osize |-> osize, nsize |-> nsize,
                                   ret |-> IF ok THEN to ELSE NULL, prim |-> "alloc",
                                   arg |-> NULL, failed |-> ~ok]
                      /\ apc' = "returned"
             [] OTHER ->
                  LET ok == hostOk /\ ptr # NULL /\ (to = ptr \/ to \in FreeSlots)
                  IN  /\ heap' = IF ok
                                 THEN [[heap EXCEPT ![ptr] = 0] EXCEPT ![to] = nsize]
                                 ELSE heap
                      /\ acall' = [ptr |-> ptr, osize |-> osize, nsize |-> nsize,
                                   ret |-> IF ok THEN to ELSE NULL, prim |-> branch,
                                   arg |-> ptr, failed |-> ~ok]
                      /\ apc' = "returned"
  /\ UNCHANGED threadVars

AllocNext == AllocDefault
AllocSpecInit == ThreadInit /\ allocator = "default" /\ AllocInit
AllocSpec == AllocSpecInit /\ [][AllocNext]_vars

ThreadNext ==
  \/ NewState
  \/ InstallHook
  \/ CheckVersion
  \/ EnterClosure
  \/ RawPush
  \/ RawPop
  \/ RawGc
  \/ GetError
  \/ MakeRef
  \/ DropRef
  \/ RawThreadError
  \/ ClosurePanic
  \/ ClosureReturn
  \/ Teardown
  \/ Unwind
  \/ AtPanic

Init == ThreadInit /\ allocator \in {"default", "counting"} /\ AllocInit
Next == ThreadNext
Spec == Init /\ [][Next]_vars

\* A session whose closure works through the call protocol: loads (which
\* classify the loader's status), global lookups (which alias the owner),
\* calls and version().
CallNext ==
  \/ NewState
  \/ InstallHook
  \/ CheckVersion
  \/ EnterClosure
  \/ CallerLoad
  \/ CallerGlobal
  \/ PushGlobal
  \/ PushArg
  \/ Invoke
  \/ DropCaller
  \/ RawSetGlobal
  \/ RawSetIndex
  \/ Version
  \/ AtPanic

CallSpecInit == ThreadInit /\ allocator = "default" /\ AllocInit
CallSpec == CallSpecInit /\ [][CallNext]_vars

\* ================================================================ claims
ConstructionOrder == <<"newstate", "atpanic", "pcall", "closure">>
IsPrefix(a, b) == Len(a) <= Len(b) /\ a = SubSeq(b, 1, Len(a))
InTrace(e) == \E i \in 1 .. Len(trace) : trace[i] = e

\* C1: get_error is stack-neutral: whenever the closure's call to get_error
\* returns, for any status code and any stack, the stack afterwards is the
\* stack before it, value for value.
C1_StackNeutral ==
  [][(GetError /\ last'.op = "get_error") => stack' = stack]_vars

\* C2: get_error returns Ok for status 0 only, and otherwise the kind the
\* status stands for: 2 Runtime, 3 Syntax, 4 OutOfMemory, 6 MessageHandler,
\* 5 GarbageCollection, and Io for every other integer.
C2_StatusMapping ==
  last.op = "get_error" =>
    /\ last.res.ok <=> last.code = LUA_OK
    /\ ~last.res.ok =>
         last.res.kind =
           (IF last.code = LUA_ERRRUN THEN "Runtime"
            ELSE IF last.code = LUA_ERRSYNTAX THEN "Syntax"
            ELSE IF last.code = LUA_ERRMEM THEN "OutOfMemory"
            ELSE IF last.code = LUA_ERRERR THEN "MessageHandler"
            ELSE IF last.code = LUA_ERRGCMM THEN "GarbageCollection"
            ELSE "Io")

\* The classifier answered Io for the file-related status 7.
C2_Witness ==
  last.op = "get_error" /\ last.code = LUA_ERRERR + 1 /\ last.res.kind = "Io"

\* C3: the owned state is closed exactly once, and only when the session is
\* over: no close has happened while the closure runs, whatever aliases it
\* made or dropped, and a finished session of a created state has closed it
\* once.
C3_CloseOnce ==
  /\ closeCount = (IF pc = "done" /\ raw # NoState THEN 1 ELSE 0)
  /\ pc \in {"closure", "hook", "returned", "unwinding"} => InTrace("closure")

\* A session that made and dropped an alias, returned, and closed once.
C3_Witness ==
  pc = "done" /\ result.tag = "ok" /\ last.op = "unref" /\ closeCount = 1

\* C4: a failed construction yields an error and never runs the closure: a
\* null state is OutOfMemory without message, a raised version check is
\* Runtime, and any failed check ends the session with its classified error.
C4_AllOrNothing ==
  /\ (pc # "start" /\ raw = NoState) =>
       /\ result = LuaResult(ErrRes("OutOfMemory", FALSE, <<>>))
       /\ pc = "done"
       /\ trace = <<"newstate">>
  /\ (InTrace("pcall") /\ checkStatus # LUA_OK) =>
       /\ result.tag = "lua"
       /\ pc = "done"
       /\ ~InTrace("closure")
       /\ checkStatus = LUA_ERRRUN => result.kind = "Runtime"
  /\ result.tag = "lua" => ~InTrace("closure")

\* The version check raised and spawn handed back a Runtime error.
C4_Witness ==
  /\ pc = "done" /\ checkStatus = LUA_ERRRUN
  /\ result.tag = "lua" /\ result.kind = "Runtime" /\ result.hasMsg

\* C5: construction goes create state, install hook, protected version check,
\* user closure, in that order; the hook is in place whenever a protected
\* call has been made or the closure has started.
C5_HookFirst ==
  /\ IsPrefix(trace, ConstructionOrder)
  /\ (InTrace("pcall") \/ InTrace("closure")) => panicf = "at_panic"

\* The closure has started after the full construction sequence.
C5_Witness == trace = ConstructionOrder /\ pc = "closure" /\ panicf = "at_panic"

\* C6: no host unwind ever leaves a callback of the VM into the VM's frames.
C6_NoUnwindAcross == ~crossed

\* C7: the fatal hook never returns normally into the VM.
C7_HookNeverReturns == ~hookReturned

\* The hook ran and ended by panicking.
C7_Witness == hookInvoked /\ crossed /\ pc = "unwinding"

\* C8: the hook is never entered while an invocation of it is still active.
C8_NoReentry == hookDepth <= 1

\* C10: with the counting allocator, no byte is outstanding once a session
\* that never invoked the fatal hook is over.
C10_NoLeak ==
  (allocator = "counting" /\ pc = "done" /\ ~hookInvoked) => outstanding = 0

\* A counted session that classified an error, returned and was torn down.
C10_Witness ==
  /\ allocator = "counting" /\ pc = "done" /\ ~hookInvoked
  /\ last.op = "get_error" /\ closeCount = 1 /\ outstanding = 0

\* C9: alloc_default follows the allocator contract on every call: it always
\* returns; new size zero frees the old block and returns null; otherwise a
\* null old pointer is a fresh allocation of the new size; otherwise the old
\* block is resized to the new size; and a failed allocation or resize is
\* reported by a null result, with the old block left as it was.
C9_AllocContract ==
  /\ apc # "fault"
  /\ apc = "returned" =>
       /\ acall.nsize = 0 =>
            /\ acall.prim = "dealloc"
            /\ acall.ret = NULL
            /\ acall.ptr # NULL => heap[acall.ptr] = 0
       /\ (acall.nsize # 0 /\ acall.ptr = NULL) =>
            /\ acall.prim = "alloc"
            /\ acall.ret # NULL => heap[acall.ret] = acall.nsize
       /\ (acall.nsize # 0 /\ acall.ptr # NULL) =>
            /\ acall.prim = "realloc"
            /\ acall.ret # NULL => heap[acall.ret] = acall.nsize
            /\ acall.ret = NULL => heap[acall.ptr] = acall.osize
       /\ acall.failed <=> (acall.nsize # 0 /\ acall.ret = NULL)

\* C11: caller_load hands out a Caller exactly when the loader answered OK,
\* and the compiled function is then the top of the stack; any other status
\* gives the classified error and no Caller, and a malformed chunk is a
\* Syntax error with a message.
C11_LoadOutcome ==
  last.op = "caller_load" =>
    /\ caller.live <=> last.code = LUA_OK
    /\ last.res.ok <=> last.code = LUA_OK
    /\ caller.live =>
         /\ stack # <<>>
         /\ stack[Len(stack)] = Fn(last.arg)
         /\ caller.base = Len(stack)
    /\ last.code = LUA_ERRSYNTAX => last.res.kind = "Syntax"
    /\ last.code = LUA_ERRMEM => last.res.kind = "OutOfMemory"
    /\ ~last.res.ok => last.res.hasMsg /\ last.res.msg # <<>>
    /\ (last.arg = SrcBad /\ last.code # LUA_ERRMEM) =>
         /\ ~caller.live
         /\ last.res.kind = "Syntax"
         /\ last.res.hasMsg

\* The malformed chunk was loaded in Text mode: a Syntax error with the
\* loader's diagnostic, and no Caller.
C11_Witness ==
  /\ last.op = "caller_load" /\ last.arg = SrcBad /\ last.mode = "Text"
  /\ last.res.kind = "Syntax" /\ last.res.msg = SyntaxMsg /\ ~caller.live

\* C12: global lookup has three outcomes that never overlap: an unbound name
\* gives no Caller and no error; a name bound to a value that is not a
\* function gives no Caller and no error; a Caller is handed out only for a
\* function, and whenever a call through such a Caller raises, the call
\* returns a structured error.
C12_GlobalOutcomes ==
  /\ last.op = "caller_global" =>
       /\ pc = "closure" /\ last.res.ok
       /\ TypeTag(globals[last.arg]) # LUA_TFUNCTION => ~caller.live
       /\ caller.live => TypeTag(globals[last.arg]) = LUA_TFUNCTION
  /\ (last.via = "global" /\ last.call.made /\ last.call.status # LUA_OK) =>
       /\ last.op = "call"
       /\ pc = "closure"
       /\ ~last.res.ok

\* C13 as stated: once `x = 42` was loaded in Text mode and invoked with 0
\* arguments and 0 results, returning Ok, caller_global("x") hands out a
\* Caller whose value is the integer 42.
C13_CallerForNumber ==
  (ranAssign /\ last.op = "caller_global" /\ last.arg = NameX) =>
    /\ caller.live
    /\ stack # <<>> /\ stack[Len(stack)] = Num(42)

\* C13 amended: once `x = 42` was loaded in Text mode and invoked with 0
\* arguments and 0 results, returning Ok, the global x is the integer 42, and
\* caller_global("x") finds a number, not a function: it returns None,
\* without an error, and no Caller is alive.
C13_NoneForNumber ==
  /\ ranAssign => globals[NameX] = Num(42)
  /\ (ranAssign /\ last.op = "caller_global" /\ last.arg = NameX) =>
       /\ last.code = LUA_TNUMBER
       /\ ~caller.live
       /\ last.res.ok /\ pc = "closure"

\* The scenario was played and the lookup of x returned None.
C13_Witness ==
  /\ ranAssign /\ last.op = "caller_global" /\ last.arg = NameX
  /\ globals[NameX] = Num(42) /\ ~caller.live

\* The depth a reading takes for "pre-call": when the call is issued, before
\* the callable was staged, or with the callable alone on top.
PreDepth(reading, rec) ==
  CASE reading = "issued" -> rec.pre
    [] reading = "staged" -> rec.base
    [] OTHER -> rec.base + 1
DepthMinusN(reading, rec) ==
  rec.post = PreDepth(reading, rec) - rec.nargs + rec.count

\* C14 as stated: after a successful protected call with N arguments the
\* depth is the pre-call depth minus N plus the result count, for the
\* version self-check and for every call of the closure alike, under one
\* reading of the pre-call depth.
C14_DepthMinusN ==
  (last.op = "call" /\ last.call.status = LUA_OK) =>
    \E reading \in {"issued", "staged", "callable"} :
      LET cv == check_version(<<>>, LUA_OK)
          selfCheck == [base |-> 0, pre |-> cv.pre, nargs |-> cv.nargs,
                        count |-> cv.count, post |-> Len(cv.called)]
      IN  DepthMinusN(reading, selfCheck) /\ DepthMinusN(reading, last.call)

\* C14 amended: a successful protected call consumes the callable together
\* with its N arguments: the depth afterwards is the depth at which the call
\* was issued minus N + 1 plus the result count, which is the depth before
\* the callable was staged plus the result count.
C14_DepthMinusCallable ==
  (last.call.made /\ last.call.status = LUA_OK) =>
    /\ last.call.post = last.call.pre - (last.call.nargs + 1) + last.call.count
    /\ last.call.post = last.call.base + last.call.count

\* A call with one argument returned one result.
C14_Witness ==
  /\ last.op = "call" /\ last.call.status = LUA_OK
  /\ last.call.nargs = 1 /\ last.call.count = 1 /\ last.call.post = Len(stack)

\* C15: version() is constant and reads only: every call returns the number
\* the first call returned, whatever loads, lookups, calls and
\* classifications came between, and a call changes neither the stack nor
\* the globals, the metatable, the hook, the memory held or the version
\* stored in the VM.
C15_VersionConstant ==
  [][Version =>
       /\ last'.code = firstVersion'
       /\ firstVersion # 0 => last'.code = firstVersion
       /\ last'.code = gversion
       /\ UNCHANGED <<stack, globals, gindex, gversion, panicf, outstanding, caller>>]_vars

\* version() was called again after the chunk had run, a metatable was set
\* and a value was left on the stack, and returned the first call's number.
C15_Witness ==
  /\ last.op = "version" /\ last.code = firstVersion
  /\ ranAssign /\ gindex /\ stack # <<>>

\* C16: a host unwind raised by the closure or by a callback of the VM is
\* handed back by spawn as ThreadError::Panic, and never as a VM error.
C16_PanicReported ==
  [][pc = "unwinding" => (result'.tag = "panic" /\ result'.tag # "lua")]_vars

\* C17: push_global adds exactly one value on top of the prior stack: the
\* global table's own entry for the name (nil when unbound), found without
\* any metamethod; it returns that value's type tag, leaves the values below
\* as they were and the global table off the stack, and changes no global.
C17_PushGlobalEffect ==
  [][PushGlobal =>
       /\ stack' = Append(stack, globals[last'.arg])
       /\ Len(stack') = Len(stack) + 1
       /\ last'.code = TypeTag(globals[last'.arg])
       /\ ~last'.meta
       /\ UNCHANGED <<globals, gindex>>]_vars

\* An unbound name was pushed over a non-empty stack while the global table
\* had an __index metamethod: nil on top.
C17_Witness ==
  /\ last.op = "push_global" /\ gindex /\ globals[last.arg] = Nil
  /\ Len(stack) = MaxStack /\ stack[Len(stack)] = Nil /\ last.code = LUA_TNIL

StepCount(steps, e) == Cardinality({i \in 1 .. Len(steps) : steps[i] = e})
StepIndex(steps, e) ==
  IF StepCount(steps, e) = 0 THEN 0 ELSE CHOOSE i \in 1 .. Len(steps) : steps[i] = e

\* C18: when get_error returns an error, a value on the stack top is
\* stringified exactly once, its bytes are copied into the message while the
\* stringified value is still on the stack, and only then is it popped; with
\* no value on the stack the message is None and nothing is stringified.
C18_CopyThenPop ==
  [][(GetError /\ last'.op = "get_error" /\ last'.code # LUA_OK) =>
       /\ stack = <<>> =>
            /\ ~last'.res.hasMsg
            /\ StepCount(last'.steps, "tolstring") = 0
       /\ stack # <<>> =>
            /\ last'.res.hasMsg
            /\ StepCount(last'.steps, "tolstring") = 1
            /\ StepIndex(last'.steps, "copy") > StepIndex(last'.steps, "tolstring")
            /\ StepIndex(last'.steps, "copy") < StepIndex(last'.steps, "pop")]_vars

\* C19: the alias at_panic works through designates the state the hook was
\* invoked for, and a ThreadRef made from a pointer or from the owner
\* designates that same state.
C19_AliasIdentity ==
  /\ hookSeen.ran => hookSeen.alias = hookSeen.thrower
  /\ \A p \in {MainState, OtherState} :
       /\ as_raw(ThreadRef_from_raw(p)) = p
       /\ as_raw(ThreadRef_from_ref(from_raw(p))) = as_raw(from_raw(p))

\* C20: alloc_default never hands a null pointer to the host's dealloc or
\* realloc, and a request with a null old pointer and new size zero makes
\* no host call and returns null.
C20_NoNullToHost ==
  /\ acall.prim \in {"dealloc", "realloc"} => acall.arg # NULL
  /\ (apc # "idle" /\ acall.ptr = NULL /\ acall.nsize = 0) =>
       /\ acall.prim = "none"
       /\ acall.ret = NULL

\* C21: a failed construction leaks no state and touches no null handle: a
\* state that was created is closed at most once, and exactly once when the
\* session is over, a failed version self-check included; after a null
\* creation no hook is installed, no protected call is made and nothing is
\* closed.
C21_NoLeakOnFailure ==
  /\ closeCount <= 1
  /\ (raw # NoState /\ pc = "done") => closeCount = 1
  /\ (raw # NoState /\ InTrace("pcall") /\ checkStatus # LUA_OK) =>
       pc = "done" /\ closeCount = 1 /\ outstanding = 0
  /\ raw = NoState =>
       /\ closeCount = 0
       /\ panicf = "none"
       /\ ~InTrace("atpanic") /\ ~InTrace("pcall") /\ ~InTrace("closure")
       /\ pc \in {"start", "done"}

\* Memory ran out in the version self-check: the state was closed once and
\* construction returned the error.
C21_Witness ==
  /\ pc = "done" /\ raw # NoState /\ checkStatus = LUA_ERRMEM
  /\ result.tag = "lua" /\ closeCount = 1 /\ ~InTrace("closure")

====
